---- MODULE Spec2Model ----
(***************************************************************************)
(* Model of the KYC ML service (apps/ml-service/app): the three upload     *)
(* endpoints of routers/, the temporary files they create, and the two     *)
(* services (DeepFaceService, OpenCVService) they call.                    *)
(*                                                                         *)
(* The face-recognition and vision libraries are the environment: each     *)
(* library call is a value [kind |-> "return", ...] or [kind |-> "raise",  *)
(* exc |-> <class>, msg |-> <str(exc)>] drawn from a finite set.           *)
(*                                                                         *)
(* Numbers: distances, thresholds and confidences are in hundredths        *)
(* (100 is 1.0); blur variance and brightness are in units.                *)
(***************************************************************************)
EXTENDS Integers, Sequences, FiniteSets, TLC

VARIABLES
    fs,          \* the temp directory: file name -> [owner, data]
    pc,          \* per request: where its handler coroutine stands
    endpoint,    \* per request: the route it was sent to
    parts,       \* per request: the uploaded parts, name -> [content_type, body]
    tmp,         \* per request: the names of the temporary files it holds
    content,     \* per request: the bytes read so far from the parts
    lib,         \* per request: what the library call of its service did
    result,      \* per request: the dictionary the service returned
    response,    \* per request: the HTTP response
    created,     \* per request: how many temporary files it created
    handlerExc,  \* per request: the exception raised in the handler body
    svcRead,     \* per request: the files its service call read
    unlinked,    \* per request: the owners of the files its cleanup removed
    call,        \* a direct call of a service method: its name and inputs
    ret          \* what that call returned

httpVars == <<fs, pc, endpoint, parts, tmp, content, lib, result, response,
              created, handlerExc, svcRead, unlinked>>
callVars == <<call, ret>>
vars == <<httpVars, callVars>>

----------------------------------------------------------------------------
(* Bounds of the model *)

NumRequests == 2
MaxDistance == 200
MaxBlur == 120
MaxFaces == 2
DocSide == 2
MaxDim == 10

----------------------------------------------------------------------------
(* Python helpers *)

Max(a, b) == IF a >= b THEN a ELSE b
Min(a, b) == IF a <= b THEN a ELSE b

\* dict.get(key, default)
Get(d, k, default) == IF k \in DOMAIN d THEN d[k] ELSE default

Return(v) == [kind |-> "return", val |-> v]
Raise(cls, m) == [kind |-> "raise", exc |-> cls, msg |-> m]

\* str(exc) of the exceptions the libraries and the I/O calls raise; an
\* exception built without arguments has the empty message.
ExcMessages == {"", "error"}

\* DeepFace with enforce_detection left at its default raises ValueError
\* when no face is found in an image.
FaceNotDetectedMsg == "Face could not be detected"
NoFaceValueError == Raise("ValueError", FaceNotDetectedMsg)

OtherExceptions == {Raise("Exception", m) : m \in ExcMessages}

----------------------------------------------------------------------------
(* DeepFaceService *)

MODEL_NAME == "ArcFace"
BLUR_THRESHOLD == 100

NoFaceDetected == "No face detected"

\* variant: the confidence without the clamp at 0
VerifyConfidenceUnclamped(distance) == 100 - distance

\* confidence = max(0.0, 1.0 - distance)
VerifyConfidence(distance) == Max(0, 100 - distance)

VerifyErrorResult(marker) ==
    [verified |-> FALSE, confidence |-> 0, error |-> marker,
     distance |-> 100, model |-> MODEL_NAME, threshold |-> 0]

\* libVerify: what DeepFace.verify(img1_path, img2_path, ...) did.
verify_faces(libVerify) ==
    IF libVerify.kind = "return"
    THEN LET r == libVerify.val
             distance == Get(r, "distance", 100)
             threshold == Get(r, "threshold", 0)
         IN  [verified |-> Get(r, "verified", FALSE),
              confidence |-> VerifyConfidence(distance),
              distance |-> distance,
              model |-> MODEL_NAME,
              threshold |-> threshold]
    ELSE IF libVerify.exc = "ValueError"
    THEN VerifyErrorResult(NoFaceDetected)
    ELSE VerifyErrorResult(libVerify.msg)

LivenessResult(is_live, confidence, message) ==
    [is_live |-> is_live, confidence |-> confidence,
     method |-> "basic_quality_check", message |-> message]

\* round(confidence, 2) of a confidence given as twice its value in
\* hundredths: an exact half goes down or up (tieUp) as the binary
\* representation of the float falls.
Round2(twice, tieUp) ==
    IF twice % 2 = 0 THEN twice \div 2
    ELSE IF tieUp THEN (twice + 1) \div 2 ELSE (twice - 1) \div 2

\* variant: the blur test with >= in place of >
BlurPassesLax(blur) == 2 * blur >= BLUR_THRESHOLD

\* blur > self.BLUR_THRESHOLD * 0.5
BlurPasses(blur) == 2 * blur > BLUR_THRESHOLD

BrightnessScore(brightness) ==
    IF 60 <= brightness /\ brightness <= 200 THEN 100 ELSE 0

\* env: extract_faces is what DeepFace.extract_faces did (the number of
\* faces, or a raise), imread what cv2.imread did (an image or None),
\* measure the blur variance cv2.Laplacian(gray, CV_64F).var() and the
\* brightness gray.mean() of the image, tieUp the direction round() takes
\* on an exact half.
detect_liveness(env) ==
    IF env.extract_faces.kind = "raise"
    THEN LivenessResult(FALSE, 0, env.extract_faces.msg)
    ELSE IF env.extract_faces.val = 0
    THEN LivenessResult(FALSE, 0, NoFaceDetected)
    ELSE IF env.imread.kind = "none"
    THEN LivenessResult(FALSE, 0, "Invalid image")
    ELSE LET blur == env.measure.blur
             brightness == env.measure.brightness
             \* in hundredths: 100 * min(1.0, blur / BLUR_THRESHOLD)
             blur_score == Min(100, (100 * blur) \div BLUR_THRESHOLD)
             brightness_score == BrightnessScore(brightness)
             is_live == BlurPasses(blur) /\ brightness_score > 0
         IN  LivenessResult(
                 is_live,
                 Round2(blur_score + brightness_score, env.tieUp),
                 IF is_live THEN "Liveness indicators passed"
                 ELSE "Liveness indicators weak")

----------------------------------------------------------------------------
(* OpenCVService *)

None == <<>>

Area(rect) == rect[3] * rect[4]

\* int(side * 0.2): 0.2 as a double lies just above one fifth, so the
\* product never falls below an exact multiple and int() gives the floor.
Pad(side) == side \div 5

\* variant: the padded box without the clamping to the image
AddPaddingNoClamp(shape, bbox) ==
    LET pad_w == Pad(bbox[3])
        pad_h == Pad(bbox[4])
    IN  <<bbox[1] - pad_w, bbox[2] - pad_h,
          bbox[3] + 2 * pad_w, bbox[4] + 2 * pad_h>>

\* shape is <<height, width>>, bbox is <<x, y, w, h>>.
_add_padding(shape, bbox) ==
    LET height == shape[1]
        width == shape[2]
        x == bbox[1]
        y == bbox[2]
        w == bbox[3]
        h == bbox[4]
        pad_w == Pad(w)
        pad_h == Pad(h)
        x_new == Max(0, x - pad_w)
        y_new == Max(0, y - pad_h)
        w_new == Min(width - x_new, w + 2 * pad_w)
        h_new == Min(height - y_new, h + 2 * pad_h)
    IN  <<x_new, y_new, w_new, h_new>>

\* max(faces, key=area) scans left to right and keeps the first maximum.
RECURSIVE MaxFrom(_, _, _)
MaxFrom(faces, i, best) ==
    IF i > Len(faces) THEN best
    ELSE MaxFrom(faces, i + 1,
                 IF Area(faces[i]) > Area(best) THEN faces[i] ELSE best)

\* variant: a scan that keeps the last maximum
RECURSIVE LastMaxFrom(_, _, _)
LastMaxFrom(faces, i, best) ==
    IF i > Len(faces) THEN best
    ELSE LastMaxFrom(faces, i + 1,
                     IF Area(faces[i]) >= Area(best) THEN faces[i] ELSE best)

LastLargestFace(faces) == LastMaxFrom(faces, 2, faces[1])

LargestFace(faces) == MaxFrom(faces, 2, faces[1])

\* base64.b64encode(cv2.imencode(".jpg", image[y:y+h, x:x+w])): the encoded
\* crop is identified by the region it was cut from.
EncodeCrop(box) == <<"base64", "jpg">> \o box

ExtractionResult(success, face_found, face_base64, face_count, message) ==
    [success |-> success, face_found |-> face_found,
     face_base64 |-> face_base64, face_count |-> face_count,
     message |-> message]

\* env: imread is what cv2.imread did (an image of a shape, or None),
\* detect what cascade.detectMultiScale did (the boxes, or a raise),
\* imencode the success flag cv2.imencode returned.
extract_face_from_document(env) ==
    IF env.imread.kind = "none"
    THEN ExtractionResult(FALSE, FALSE, None, 0, "Invalid or unreadable image")
    ELSE IF env.detect.kind = "raise"
    THEN ExtractionResult(FALSE, FALSE, None, 0, env.detect.msg)
    ELSE IF Len(env.detect.val) = 0
    THEN ExtractionResult(FALSE, FALSE, None, 0, NoFaceDetected)
    ELSE LET faces == env.detect.val
             face_count == Len(faces)
             box == _add_padding(env.imread.shape, LargestFace(faces))
         IN  IF ~env.imencode
             THEN ExtractionResult(FALSE, TRUE, None, face_count,
                                   "Failed to encode face image")
             ELSE ExtractionResult(TRUE, TRUE, EncodeCrop(box), face_count,
                                   "Largest face extracted")

----------------------------------------------------------------------------
(* What the library calls can do *)

\* DeepFace.verify returns a dictionary (with or without each of the keys
\* verify_faces reads), fails to find a face, or fails otherwise.
VerifyDicts ==
    [distance : 0..MaxDistance, threshold : {0, 68}, verified : BOOLEAN]
    \cup [threshold : {68}, verified : BOOLEAN]
    \cup [distance : {0, 40, 150}]
    \cup [verified : {TRUE}]

LibVerify ==
    {Return(d) : d \in VerifyDicts} \cup {NoFaceValueError} \cup OtherExceptions

LivenessEnv(ef, im, me, tie) ==
    [extract_faces |-> ef, imread |-> im, measure |-> me, tieUp |-> tie]

\* DeepFace.extract_faces returns the faces, fails to find one, or fails
\* otherwise.
LibExtractFaces ==
    {Return(0), Return(1), NoFaceValueError} \cup OtherExceptions

\* Brightness (a mean of 8-bit pixels) at and around the limits of the
\* accepted range.
Brightnesses == {0, 59, 60, 61, 130, 199, 200, 201, 255}

AnImage == [kind |-> "image"]
NoImage == [kind |-> "none"]

\* A document of DocSide x DocSide pixels.
DocShape == <<DocSide, DocSide>>

InsideImage(shape, b) ==
    /\ b[1] >= 0 /\ b[2] >= 0
    /\ b[1] + b[3] <= shape[2] /\ b[2] + b[4] <= shape[1]

\* The boxes cascade.detectMultiScale can return on an image.
Boxes(shape) ==
    {b \in (0..shape[2]) \X (0..shape[1]) \X (1..shape[2]) \X (1..shape[1]) :
        InsideImage(shape, b)}

ExtractEnv(im, de, en) == [imread |-> im, detect |-> de, imencode |-> en]

ImageOf(shape) == [kind |-> "image", shape |-> shape]

\* The pairs <<start, length>> of the spans inside 0..n.
Spans(n) == UNION {{<<a, len>> : len \in 1..(n - a)} : a \in 0..(n - 1)}

----------------------------------------------------------------------------
(* The HTTP layer: requests, uploads and temporary files *)

Requests == 1..NumRequests

ContentTypes == {"image/jpeg", "image/png", "text/plain"}

\* The content types of the two parts of a verify-face request: each
\* accepted type and the refused one in each position, and both refused.
VerifyContentTypes ==
    {<<"image/jpeg", "image/png">>, <<"image/png", "image/jpeg">>,
     <<"text/plain", "image/jpeg">>, <<"image/png", "text/plain">>,
     <<"text/plain", "text/plain">>}

\* The bytes of a part: every part of every request carries bytes of its
\* own, so a file that holds another part's bytes is told apart.
Body(r, part) == <<r, part>>

Upload(r, part, ct) == [content_type |-> ct, body |-> Body(r, part)]

UnsupportedMsg == "Unsupported file type. Only JPEG and PNG are allowed."
IOErrorMsg == "I/O error"

\* a direct call that has not returned yet
NoRet == [kind |-> "pending"]

NoBody == [kind |-> "none"]
NoResult == [kind |-> "none"]
NotCalled == [kind |-> "not called"]
NoExc == "none"
NoFile == [owner |-> 0, data |-> <<>>]

\* raise HTTPException(status_code, detail)
HTTPException(status_code, detail) ==
    [status |-> status_code, detail |-> detail, body |-> NoBody]

\* main.global_exception_handler: an exception that leaves the handler
global_exception_handler(msg) ==
    [status |-> 500, detail |-> msg, body |-> NoBody]

\* a returned dictionary, passed through the route's response_model
Ok(model_fields, d) ==
    [status |-> 200, detail |-> "", body |-> [k \in model_fields |-> d[k]]]

FaceVerificationResponse ==
    {"verified", "confidence", "distance", "model", "threshold"}
FaceExtractionResponse ==
    {"success", "face_found", "face_base64", "face_count", "message"}
LivenessDetectionResponse == {"is_live", "confidence", "method", "message"}

\* truth value of a str
Truthy(s) == s # ""

_validate_image(file) == file.content_type \in {"image/jpeg", "image/png"}

\* variant: only the first part is validated
VerifyValidatedLiveOnly(p) == _validate_image(p.live_photo)

\* _validate_image(live_photo); _validate_image(document_photo)
VerifyValidated(p) ==
    _validate_image(p.live_photo) /\ _validate_image(p.document_photo)

TmpNames == 1..(2 * NumRequests)

\* variant: one fixed path for every temporary file
SharedTmpName(dir) == 1

\* tempfile.NamedTemporaryFile(delete=False): a name that no file of the
\* directory has (the file is opened with O_EXCL). Names are only ever
\* compared for equality, so the least free name stands for any free name.
FreshTmpName(dir) == CHOOSE n \in TmpNames :
                        n \notin DOMAIN dir /\ \A m \in TmpNames \ DOMAIN dir : n <= m

CreateFile(dir, name, r) ==
    [n \in DOMAIN dir \cup {name} |->
        IF n = name THEN [owner |-> r, data |-> <<>>] ELSE dir[n]]

\* tmp.write(data); tmp.close()
WriteFile(dir, name, data) ==
    IF name \in DOMAIN dir THEN [dir EXCEPT ![name].data = data] ELSE dir

\* the service opens the file by its name
ReadFile(dir, name) == IF name \in DOMAIN dir THEN dir[name] ELSE NoFile

\* os.unlink(path), OSError swallowed
Unlink(dir, name) == [n \in DOMAIN dir \ {name} |-> dir[n]]

RECURSIVE UnlinkAll(_, _)
UnlinkAll(dir, names) ==
    IF names = <<>> THEN dir
    ELSE UnlinkAll(Unlink(dir, Head(names)), Tail(names))

OwnersOf(dir, names) ==
    {dir[names[i]].owner : i \in {j \in DOMAIN names : names[j] \in DOMAIN dir}}

\* The libraries' behaviours the endpoints are driven with.
RequestLibVerify ==
    {Return([distance |-> 30, threshold |-> 68, verified |-> TRUE]),
     NoFaceValueError} \cup OtherExceptions

RequestLibExtract ==
    {ExtractEnv(NoImage, Return(<<>>), TRUE),
     ExtractEnv(ImageOf(DocShape), Return(<<>>), TRUE),
     ExtractEnv(ImageOf(DocShape), Return(<<<<0, 0, 1, 1>>>>), TRUE),
     ExtractEnv(ImageOf(DocShape), Return(<<<<0, 0, 1, 1>>>>), FALSE),
     ExtractEnv(ImageOf(DocShape), Raise("Exception", "error"), TRUE)}

Sharp == [blur |-> 80, brightness |-> 130]
Blurred == [blur |-> 20, brightness |-> 130]

RequestLibLiveness ==
    {LivenessEnv(Return(0), AnImage, Sharp, FALSE),
     LivenessEnv(NoFaceValueError, AnImage, Sharp, FALSE),
     LivenessEnv(Return(1), NoImage, Sharp, FALSE),
     LivenessEnv(Return(1), AnImage, Sharp, FALSE),
     LivenessEnv(Return(1), AnImage, Blurred, FALSE),
     LivenessEnv(Raise("Exception", "error"), AnImage, Sharp, FALSE)}

HttpInit ==
    /\ fs = <<>>
    /\ pc = [r \in Requests |-> "idle"]
    /\ endpoint = [r \in Requests |-> "none"]
    /\ parts = [r \in Requests |-> <<>>]
    /\ tmp = [r \in Requests |-> <<>>]
    /\ content = [r \in Requests |-> <<>>]
    /\ lib = [r \in Requests |-> NotCalled]
    /\ result = [r \in Requests |-> NoResult]
    /\ response = [r \in Requests |-> NoBody]
    /\ created = [r \in Requests |-> 0]
    /\ handlerExc = [r \in Requests |-> NoExc]
    /\ svcRead = [r \in Requests |-> <<>>]
    /\ unlinked = [r \in Requests |-> {}]

\* The request is answered: the handler's frame and its locals are gone.
Respond(r, resp) ==
    /\ response' = [response EXCEPT ![r] = resp]
    /\ pc' = [pc EXCEPT ![r] = "done"]
    /\ tmp' = [tmp EXCEPT ![r] = <<>>]
    /\ content' = [content EXCEPT ![r] = <<>>]

\* except Exception as exc: raise HTTPException(500, str(exc)); then the
\* finally block unlinks the request's temporary files.
FailInTry(r, msg) ==
    /\ handlerExc' = [handlerExc EXCEPT ![r] = msg]
    /\ unlinked' = [unlinked EXCEPT ![r] = OwnersOf(fs, tmp[r])]
    /\ fs' = UnlinkAll(fs, tmp[r])
    /\ Respond(r, HTTPException(500, msg))
    /\ UNCHANGED <<endpoint, parts, lib, result, created, svcRead>>

\* _validate_image raised: nothing was created, nothing is cleaned up.
Reject(r, ep, p) ==
    /\ endpoint' = [endpoint EXCEPT ![r] = ep]
    /\ parts' = [parts EXCEPT ![r] = p]
    /\ Respond(r, HTTPException(400, UnsupportedMsg))
    /\ UNCHANGED <<fs, lib, result, created, handlerExc, svcRead, unlinked>>

RECURSIVE WriteAll(_, _, _)
WriteAll(dir, names, bodies) ==
    IF names = <<>> THEN dir
    ELSE WriteAll(WriteFile(dir, Head(names), Head(bodies)),
                  Tail(names), Tail(bodies))

\* write the uploads, close, call the service, map its result, clean up
Serve(r, bodies, libOutcome, res, resp) ==
    LET written == WriteAll(fs, tmp[r], bodies)
    IN  /\ svcRead' = [svcRead EXCEPT ![r] =
                          [i \in DOMAIN tmp[r] |-> ReadFile(written, tmp[r][i])]]
        /\ lib' = [lib EXCEPT ![r] = libOutcome]
        /\ result' = [result EXCEPT ![r] = res]
        /\ unlinked' = [unlinked EXCEPT ![r] = OwnersOf(written, tmp[r])]
        /\ fs' = UnlinkAll(written, tmp[r])
        /\ Respond(r, resp)
        /\ UNCHANGED <<endpoint, parts, created, handlerExc>>

----------------------------------------------------------------------------
(* POST /api/verify-face *)

\* if result.get("error"):
VerifyError(res) == Truthy(Get(res, "error", ""))

\* Entry of the handler up to its first await: validation, then the two
\* temporary files, created before the try block is entered.
verify_face_start(r) ==
    /\ pc[r] = "idle"
    /\ \E ct \in VerifyContentTypes :
        LET p == [live_photo |-> Upload(r, "live_photo", ct[1]),
                  document_photo |-> Upload(r, "document_photo", ct[2])]
            live_tmp == FreshTmpName(fs)
            fs1 == CreateFile(fs, live_tmp, r)
            doc_tmp == FreshTmpName(fs1)
            fs2 == CreateFile(fs1, doc_tmp, r)
        IN  IF ~VerifyValidated(p) THEN Reject(r, "verify-face", p)
            ELSE \E io \in {"ok", "live_tmp fails", "doc_tmp fails"} :
                 /\ endpoint' = [endpoint EXCEPT ![r] = "verify-face"]
                 /\ parts' = [parts EXCEPT ![r] = p]
                 /\ UNCHANGED <<lib, result, svcRead, unlinked>>
                 /\ CASE io = "live_tmp fails" ->
                           /\ handlerExc' = [handlerExc EXCEPT ![r] = IOErrorMsg]
                           /\ Respond(r, global_exception_handler(IOErrorMsg))
                           /\ UNCHANGED <<fs, created>>
                      [] io = "doc_tmp fails" ->
                           /\ fs' = fs1
                           /\ created' = [created EXCEPT ![r] = 1]
                           /\ handlerExc' = [handlerExc EXCEPT ![r] = IOErrorMsg]
                           /\ Respond(r, global_exception_handler(IOErrorMsg))
                      [] OTHER ->
                           /\ fs' = fs2
                           /\ created' = [created EXCEPT ![r] = 2]
                           /\ tmp' = [tmp EXCEPT ![r] = <<live_tmp, doc_tmp>>]
                           /\ pc' = [pc EXCEPT ![r] = "await live_photo.read"]
                           /\ UNCHANGED <<content, response, handlerExc>>
    /\ UNCHANGED callVars

\* live_content = await live_photo.read(), up to the next await
verify_face_live_read(r) ==
    /\ pc[r] = "await live_photo.read"
    /\ \E io \in {"ok", "read fails"} :
        IF io = "read fails" THEN FailInTry(r, IOErrorMsg)
        ELSE /\ content' = [content EXCEPT ![r] = <<parts[r].live_photo.body>>]
             /\ pc' = [pc EXCEPT ![r] = "await document_photo.read"]
             /\ UNCHANGED <<fs, endpoint, parts, tmp, lib, result, response,
                            created, handlerExc, svcRead, unlinked>>
    /\ UNCHANGED callVars

\* doc_content = await document_photo.read(), and the rest of the handler
verify_face_finish(r) ==
    /\ pc[r] = "await document_photo.read"
    /\ \/ FailInTry(r, IOErrorMsg)  \* the read, a write or a close raises
       \/ \E l \in RequestLibVerify :
             LET res == verify_faces(l)
             IN  Serve(r, content[r] \o <<parts[r].document_photo.body>>, l, res,
                       IF VerifyError(res)
                       THEN HTTPException(400, res["error"])
                       ELSE Ok(FaceVerificationResponse, res))
    /\ UNCHANGED callVars

----------------------------------------------------------------------------
(* POST /api/extract-face and POST /api/detect-liveness: one upload, one
   temporary file *)

\* Entry of a one-file handler up to its await.
SingleStart(r, ep, part, await) ==
    /\ pc[r] = "idle"
    /\ \E ct \in ContentTypes :
        LET p == [x \in {part} |-> Upload(r, part, ct)]
            tmp_file == FreshTmpName(fs)
        IN  IF ~_validate_image(p[part]) THEN Reject(r, ep, p)
            ELSE \E io \in {"ok", "tmp_file fails"} :
                 /\ endpoint' = [endpoint EXCEPT ![r] = ep]
                 /\ parts' = [parts EXCEPT ![r] = p]
                 /\ UNCHANGED <<lib, result, svcRead, unlinked>>
                 /\ IF io = "tmp_file fails"
                    THEN /\ handlerExc' = [handlerExc EXCEPT ![r] = IOErrorMsg]
                         /\ Respond(r, global_exception_handler(IOErrorMsg))
                         /\ UNCHANGED <<fs, created>>
                    ELSE /\ fs' = CreateFile(fs, tmp_file, r)
                         /\ created' = [created EXCEPT ![r] = 1]
                         /\ tmp' = [tmp EXCEPT ![r] = <<tmp_file>>]
                         /\ pc' = [pc EXCEPT ![r] = await]
                         /\ UNCHANGED <<content, response, handlerExc>>
    /\ UNCHANGED callVars

extract_face_start(r) ==
    SingleStart(r, "extract-face", "document", "await document.read")

\* variant: the failure test reads face_found in place of success
ExtractFailedNoFace(res) == ~Get(res, "face_found", FALSE)

\* if not result.get("success"):
ExtractFailed(res) == ~Get(res, "success", FALSE)

\* content = await document.read(), and the rest of the handler
extract_face_finish(r) ==
    /\ pc[r] = "await document.read"
    /\ \/ FailInTry(r, IOErrorMsg)  \* the read, a write or a close raises
       \/ \E l \in RequestLibExtract :
             LET res == extract_face_from_document(l)
             IN  Serve(r, <<parts[r].document.body>>, l, res,
                       IF ExtractFailed(res)
                       THEN HTTPException(400,
                                Get(res, "message", "Face extraction failed"))
                       ELSE Ok(FaceExtractionResponse, res))
    /\ UNCHANGED callVars

detect_liveness_start(r) ==
    SingleStart(r, "detect-liveness", "photo", "await photo.read")

\* if result.get("message") == "No face detected":
LivenessNoFace(res) == Get(res, "message", "") = NoFaceDetected

\* content = await photo.read(), and the rest of the handler
detect_liveness_finish(r) ==
    /\ pc[r] = "await photo.read"
    /\ \/ FailInTry(r, IOErrorMsg)  \* the read, a write or a close raises
       \/ \E l \in RequestLibLiveness :
             LET res == detect_liveness(l)
             IN  Serve(r, <<parts[r].photo.body>>, l, res,
                       IF LivenessNoFace(res)
                       THEN HTTPException(400, res["message"])
                       ELSE Ok(LivenessDetectionResponse, res))
    /\ UNCHANGED callVars

Init ==
    /\ HttpInit
    /\ call = [fn |-> "none"]
    /\ ret = NoRet

Next ==
    \E r \in Requests :
        \/ verify_face_start(r)
        \/ verify_face_live_read(r)
        \/ verify_face_finish(r)
        \/ extract_face_start(r)
        \/ extract_face_finish(r)
        \/ detect_liveness_start(r)
        \/ detect_liveness_finish(r)

Spec == Init /\ [][Next]_vars

----------------------------------------------------------------------------
(* Direct calls: one specification per service method. The inputs are
   drawn in the initial state, the one action applies the method. *)

Calls(fn, env) ==
    /\ HttpInit
    /\ call = [fn |-> fn, env |-> env]
    /\ ret = NoRet

Returns(fn, value) ==
    /\ call.fn = fn
    /\ ret = NoRet
    /\ ret' = value
    /\ UNCHANGED <<call, httpVars>>

InitVerify == \E l \in LibVerify : Calls("verify_faces", l)

CallVerifyFaces == Returns("verify_faces", verify_faces(call.env))

SpecVerify == InitVerify /\ [][CallVerifyFaces]_vars

\* Every detector outcome, a readable or unreadable image, every blur
\* variance up to MaxBlur, and round() going either way on a half.
InitLiveness ==
    \E ef \in LibExtractFaces, im \in {AnImage, NoImage},
       blur \in 0..MaxBlur, brightness \in Brightnesses, tie \in BOOLEAN :
        Calls("detect_liveness",
              LivenessEnv(ef, im, [blur |-> blur, brightness |-> brightness], tie))

CallDetectLiveness == Returns("detect_liveness", detect_liveness(call.env))

SpecLiveness == InitLiveness /\ [][CallDetectLiveness]_vars

\* A readable or unreadable document, every list of up to MaxFaces boxes
\* (or a failing detector), and an encoder that succeeds or not.
InitExtract ==
    \E im \in {NoImage, ImageOf(DocShape)}, n \in 0..MaxFaces, en \in BOOLEAN :
        \E de \in {Return(f) : f \in [1..n -> Boxes(DocShape)]} \cup OtherExceptions :
            Calls("extract_face_from_document", ExtractEnv(im, de, en))

CallExtractFace ==
    Returns("extract_face_from_document", extract_face_from_document(call.env))

SpecExtract == InitExtract /\ [][CallExtractFace]_vars

\* Every image of up to MaxDim x MaxDim pixels and every box inside it.
InitPad ==
    \E H \in 1..MaxDim, W \in 1..MaxDim :
        \E sx \in Spans(W), sy \in Spans(H) :
            Calls("_add_padding",
                  [shape |-> <<H, W>>,
                   bbox |-> <<sx[1], sy[1], sx[2], sy[2]>>])

CallAddPadding ==
    Returns("_add_padding", _add_padding(call.env.shape, call.env.bbox))

SpecPad == InitPad /\ [][CallAddPadding]_vars

----------------------------------------------------------------------------
(* Properties *)

Done(r) == pc[r] = "done"

Returned == ret # NoRet

PartNames(ep) ==
    CASE ep = "verify-face" -> <<"live_photo", "document_photo">>
      [] ep = "extract-face" -> <<"document">>
      [] ep = "detect-liveness" -> <<"photo">>
      [] OTHER -> <<>>

HasRefusedPart(r) ==
    \E k \in DOMAIN parts[r] :
        parts[r][k].content_type \notin {"image/jpeg", "image/png"}

FilesOf(r) == {n \in DOMAIN fs : fs[n].owner = r}

\* C1: once a request has finished, on every outcome, no temporary file
\* created by it still exists.
C1_NoTempFileAfterRequest == \A r \in Requests : Done(r) => FilesOf(r) = {}

\* C2: a request with a part of a content type other than image/jpeg and
\* image/png is answered 400 with the unsupported-type detail, creates no
\* temporary file and never invokes the service, whichever part it is.
C2_ValidationFirst ==
    \A r \in Requests :
        (pc[r] # "idle" /\ HasRefusedPart(r)) =>
            /\ Done(r)
            /\ response[r] = HTTPException(400, UnsupportedMsg)
            /\ created[r] = 0
            /\ FilesOf(r) = {}
            /\ lib[r] = NotCalled
            /\ svcRead[r] = <<>>

C2_Witness ==
    \E r \in Requests :
        /\ Done(r)
        /\ endpoint[r] = "verify-face"
        /\ parts[r].live_photo.content_type = "image/png"
        /\ parts[r].document_photo.content_type = "text/plain"
        /\ response[r].status = 400

\* C3: under any interleaving of requests, the service call of a request
\* reads only files this request created, holding exactly the bytes this
\* request uploaded; its cleanup removes only its own files; and the files
\* of a request still in flight exist and are its own.
C3_Isolation ==
    \A r \in Requests :
        /\ \A i \in DOMAIN svcRead[r] :
              svcRead[r][i] =
                  [owner |-> r, data |-> Body(r, PartNames(endpoint[r])[i])]
        /\ unlinked[r] \subseteq {r}
        /\ \A i \in DOMAIN tmp[r] :
              tmp[r][i] \in DOMAIN fs /\ fs[tmp[r][i]].owner = r

C3_Witness ==
    \E r1 \in Requests, r2 \in Requests :
        /\ r1 # r2
        /\ Done(r1)
        /\ Len(svcRead[r1]) = 2
        /\ unlinked[r1] = {r1}
        /\ pc[r2] = "await document_photo.read"
        /\ tmp[r2] = <<3, 4>>

\* C4: the result of verify_faces has the fixed shape; a ValueError of the
\* library gives the 'No face detected' result; and whenever the result
\* carries an error marker the endpoint answers 400 with the marker as
\* detail, so that a 200 response carries none.
C4_ErrorMarkerGives400 ==
    \A r \in Requests :
        (Done(r) /\ endpoint[r] = "verify-face" /\ lib[r] # NotCalled) =>
            /\ FaceVerificationResponse \subseteq DOMAIN result[r]
            /\ lib[r] = NoFaceValueError =>
                  result[r] = VerifyErrorResult(NoFaceDetected)
            /\ "error" \in DOMAIN result[r] =>
                  response[r] = HTTPException(400, result[r]["error"])
            /\ response[r].status = 200 =>
                  "error" \notin DOMAIN response[r].body

C6_LargestFaceFirst ==
    LET env == call.env
        faces == env.detect.val
    IN  (Returned /\ env.imread.kind = "image" /\ env.detect.kind = "return"
            /\ Len(env.detect.val) >= 1) =>
            /\ ret.face_count = Len(faces)
            /\ ret.face_found
            /\ env.imencode =>
                  \E i \in 1..Len(faces) :
                      /\ \A j \in 1..Len(faces) : Area(faces[j]) <= Area(faces[i])
                      /\ \A j \in 1..(i - 1) : Area(faces[j]) < Area(faces[i])
                      /\ ret.face_base64 =
                            EncodeCrop(_add_padding(env.imread.shape, faces[i]))

C6_Witness ==
    /\ Returned
    /\ call.fn = "extract_face_from_document"
    /\ call.env.imread.kind = "image"
    /\ call.env.detect = Return(<<<<1, 0, 1, 2>>, <<0, 0, 2, 1>>>>)
    /\ ret.face_count = 2
    /\ ret.face_base64 = EncodeCrop(<<1, 0, 1, 2>>)

\* C7: when the detector finds no face, by returning no faces or by
\* raising, POST /api/detect-liveness answers 400 'No face detected'.
C7_NoFaceGives400 ==
    \A r \in Requests :
        (Done(r) /\ endpoint[r] = "detect-liveness" /\ lib[r] # NotCalled
            /\ lib[r].extract_faces \in {Return(0), NoFaceValueError}) =>
            response[r] = HTTPException(400, NoFaceDetected)

\* C8: for a box inside the image, _add_padding returns a box that lies
\* inside the image, contains the original box and is not empty.
C8_PaddedBoxInsideImage ==
    (Returned /\ call.fn = "_add_padding") =>
        LET height == call.env.shape[1]
            width == call.env.shape[2]
            b == call.env.bbox
        IN  /\ ret[1] >= 0 /\ ret[2] >= 0
            /\ ret[1] + ret[3] <= width /\ ret[2] + ret[4] <= height
            /\ ret[1] <= b[1] /\ ret[2] <= b[2]
            /\ ret[1] + ret[3] >= b[1] + b[3]
            /\ ret[2] + ret[4] >= b[2] + b[4]
            /\ ret[3] >= 1 /\ ret[4] >= 1

C8_Witness ==
    /\ Returned
    /\ call.fn = "_add_padding"
    /\ call.env.shape = <<6, 10>>
    /\ call.env.bbox = <<0, 1, 10, 5>>
    /\ ret = <<0, 0, 10, 6>>

\* C9: a 200 of POST /api/extract-face has success, face_found, a face and
\* a face_count of at least 1; every failure the service reports gives 400
\* with the service's message; a 500 comes only from an exception raised in
\* the handler itself.
C9_ExtractResponses ==
    \A r \in Requests :
        (Done(r) /\ endpoint[r] = "extract-face") =>
            /\ response[r].status = 200 =>
                  /\ response[r].body.success
                  /\ response[r].body.face_found
                  /\ response[r].body.face_base64 # None
                  /\ response[r].body.face_count >= 1
            /\ (lib[r] # NotCalled /\ ~result[r].success) =>
                  response[r] = HTTPException(400, result[r].message)
            /\ response[r].status = 500 =>
                  handlerExc[r] # NoExc /\ lib[r] = NotCalled

C9_Witness ==
    \E r \in Requests :
        /\ Done(r)
        /\ endpoint[r] = "extract-face"
        /\ lib[r] # NotCalled
        /\ result[r].face_found
        /\ ~result[r].success
        /\ response[r] = HTTPException(400, "Failed to encode face image")

\* C10: is_live holds exactly when a face was detected, the image was
\* readable, the blur variance is above half of BLUR_THRESHOLD and the
\* brightness is within [60, 200]; then the confidence is at least 0.75 and
\* the message says the indicators passed; the confidence is within [0, 1].
C10_LivenessResult ==
    (Returned /\ call.fn = "detect_liveness") =>
        LET env == call.env
            faceDetected ==
                env.extract_faces.kind = "return" /\ env.extract_faces.val >= 1
            readable == env.imread.kind = "image"
        IN  /\ ret.is_live <=>
                  /\ faceDetected
                  /\ readable
                  /\ env.measure.blur > 50
                  /\ env.measure.brightness >= 60
                  /\ env.measure.brightness <= 200
            /\ ret.is_live =>
                  /\ ret.confidence >= 75
                  /\ ret.message = "Liveness indicators passed"
            /\ ret.confidence >= 0 /\ ret.confidence <= 100

C10_Witness ==
    /\ Returned
    /\ call.fn = "detect_liveness"
    /\ call.env.measure = [blur |-> 51, brightness |-> 200]
    /\ ret.is_live
    /\ ret.confidence = 75

====
